---- MODULE Spec2Model ----
(***************************************************************************)
(* Model of the video assembly pipeline of src/video_processor.py.         *)
(*                                                                         *)
(* create_video_from_images is a sequential handler that blocks on one     *)
(* external process after another.  The handler is cut at those blocking   *)
(* points: for every external command there is one action that runs the    *)
(* code up to and including the process launch and one action that runs    *)
(* the code from the process exit up to the next launch.  pc is the        *)
(* position of the handler, log is the list of external commands of the    *)
(* current job in the order in which they were launched.                   *)
(***************************************************************************)
EXTENDS Integers, Sequences, FiniteSets, TLC

\* ---------------------------------------------------------------- bounds
MaxImages == 3
MaxJobs == 2
MaxThreads == 3
MaxCalls == 5
MaxGenerations == 3

\* ------------------------------------------------- environment alphabets
\* values float(data['format']['duration']) can take, in milliseconds
DurationValues == {-1000, 0, 20, 1570, 9000}

\* what ffprobe can print on stdout
ProbeOutputs ==
    {[kind |-> "duration", value |-> d] : d \in DurationValues}
        \cup {[kind |-> k, value |-> 0] : k \in {"not_json", "no_duration", "not_number"}}

\* diagnostic output of a failing ffmpeg process
StderrTexts == {"stderr_a", "stderr_b"}

\* the number of characters of a diagnostic text: one short, one long
StderrLength(text) ==
    CASE text = "stderr_a" -> 120
      [] text = "stderr_b" -> 1200
      [] text = "launch_error" -> 40
      [] OTHER -> 0

\* run_ffmpeg_command: error_msg[:500], in the text handed to its callback
ErrorExcerptLimit == 500

\* what the image folder holds: it does not exist, or it has n image files
FolderStates == {-1} \cup (0 .. MaxImages)

NoError == [msg |-> "None", detail |-> ""]

VARIABLES
    pc,               \* position of the handler
    job,              \* number of jobs started so far
    image_folder,     \* argument of create_video_from_images: what the folder holds
    enable_dissolve,  \* argument of create_video_from_images
    enable_zoom,      \* argument of create_video_from_images
    enable_blur_bg,   \* argument of create_video_from_images
    progress_callback, \* argument of create_video_from_images: is a callback given
    images,           \* len(images) after get_image_files, 0 before
    audio_duration,   \* audio_duration in ms, 0 before the probe
    duration_per_image, \* duration_per_image, a fraction of ms
    use_gpu,          \* use_gpu, FALSE before check_nvenc
    i,                \* loop index of the clip loop
    clip_files,       \* clip_files, as the list of clip numbers
    concat_output,    \* the file handed to _final_encode
    temp_dir,         \* the TemporaryDirectory and what it holds
    outputFile,       \* the file at output_path
    running,          \* log positions of the external processes still running
    log,              \* external commands of this job
    ret,              \* "none" while running, then "ok", "fail" or "raise"
    error,            \* the error message of the outcome
    events,           \* progress messages delivered and work begun in this job, in order
    probe_history,    \* what check_nvenc returned in the jobs so far
    folder_entries,   \* get_image_files: the entries of the folder it lists
    iter_left,        \* get_image_files: entries folder.iterdir() has not yielded yet
    image_list,       \* get_image_files: the list images, in the order of the listing
    resolved,         \* whether get_image_files has returned, and the list it returned
    is_processing,    \* gui: self.is_processing
    generate_btn,     \* gui: state of the generate button
    threads,          \* gui: the worker threads, by order of creation
    after_queue,      \* gui: callbacks root.after(0, ...) has queued for the main loop
    calls,            \* gui: number of calls of _start_generation so far
    web_pc,           \* web: "idle" between script runs, "generating" inside the handler
    processing,       \* web: st.session_state.processing
    video_ready,      \* web: st.session_state.video_ready
    video_bytes,      \* web: st.session_state.video_bytes, as the number of its generation
    video_name,       \* web: st.session_state.video_name, as the number of its generation
    drive_link,       \* web: st.session_state['drive_link'], as the generation it links to
    google_token,     \* web: st.session_state['google_token']
    google_email,     \* web: st.session_state['google_email']
    oauth_flow,       \* web: is st.session_state['oauth_flow'] set
    query_code,       \* web: is 'code' in st.query_params
    oauth_ret,        \* web: what handle_oauth_callback returned in this script run
    button_disabled,  \* web: the generate button as the last script run rendered it
    shown,            \* web: the result the last script run displayed
    generation,       \* web: number of clicks on the generate button so far
    source_mode,      \* web: the source radio's value in the run of the handler
    upload_to_drive   \* web: the upload checkbox's value in the run of the handler

pipeline_vars == <<pc, job, image_folder, enable_dissolve, enable_zoom, enable_blur_bg,
          progress_callback, images, audio_duration, duration_per_image, use_gpu, i,
          clip_files, concat_output, temp_dir, outputFile, running, log, ret, error,
          events, probe_history>>
resolver_vars == <<folder_entries, iter_left, image_list, resolved>>
gui_vars == <<is_processing, generate_btn, threads, after_queue, calls>>
web_vars == <<web_pc, processing, video_ready, video_bytes, video_name, drive_link,
              google_token, google_email, oauth_flow, query_code, oauth_ret,
              button_disabled, shown, generation, source_mode, upload_to_drive>>
vars == <<pipeline_vars, resolver_vars, gui_vars, web_vars>>

\* ------------------------------------------------------------- helpers
NoTempDir == [exists |-> FALSE, clips |-> {}, concat_txt |-> <<>>,
              concat_output |-> FALSE, dissolve_output |-> FALSE]

\* with tempfile.TemporaryDirectory() as temp_dir:   (entry)
TemporaryDirectoryEnter == [NoTempDir EXCEPT !.exists = TRUE]

\* variant: the directory is removed on return only, not when an exception passes
TemporaryDirectoryExit_leak(td, how) == IF how = "raise" THEN td ELSE NoTempDir

\* with tempfile.TemporaryDirectory() as temp_dir:   (exit, on return and on raise)
TemporaryDirectoryExit(td, how) == NoTempDir

\* a duration as the fraction num/den of milliseconds
NoDuration == [num |-> 0, den |-> 1]

\* an external command: what it is, the arguments that matter and how it ended
Cmd(kind, idx, codec, status) ==
    [kind |-> kind, idx |-> idx, codec |-> codec, status |-> status, stderr |-> "",
     stdout |-> "", duration |-> NoDuration, frames |-> 0, vf |-> <<>>, input |-> "",
     image |-> -1, opts |-> <<>>, inputs |-> <<>>, chain |-> <<>>]

\* the command just launched is appended to the log; it runs unless the launch
\* raised, and then the exception is its status
LaunchedCmd(c, l) ==
    /\ log' = Append(log, [c EXCEPT !.status = IF l = "started" THEN "running" ELSE l])
    /\ running' = IF l = "started" THEN running \cup {Len(log) + 1} ELSE running

Launched(kind, idx, codec, l) == LaunchedCmd(Cmd(kind, idx, codec, "running"), l)

\* variant: every command is abandoned after a timeout
ExitOutcomes_timeout(kind) == {"exit0", "nonzero", "timeout"}

\* how the wait for a launched process can end: check_nvenc passes timeout=10 to
\* subprocess.run, process.communicate() in run_ffmpeg_command has no timeout
ExitOutcomes(kind) ==
    IF kind = "nvenc_probe" THEN {"exit0", "nonzero", "timeout"} ELSE {"exit0", "nonzero"}

\* the status a finished wait leaves in the log
ExitStatus(outcome) ==
    CASE outcome = "exit0" -> "ok"
      [] outcome = "nonzero" -> "failed"
      [] outcome = "timeout" -> "timeout"

\* the running command (the last of the log) has exited
Exited(status, text) ==
    /\ log' = [log EXCEPT ![Len(log)].status = status, ![Len(log)].stderr = text]
    /\ running' = running \ {Len(log)}

\* a progress message and the begin of a stage's work, as entries of events
Msg(text, arg) == [ev |-> "msg", text |-> text, arg |-> arg]
Work(stage, arg) == [ev |-> "work", text |-> stage, arg |-> arg]

\* if progress_callback: progress_callback(m)
Callback(ev, cb, m) == IF cb THEN Append(ev, m) ELSE ev

\* return / raise before the with block is entered
Leave(how, e) ==
    /\ pc' = IF how = "ok" THEN "Done" ELSE "Failed"
    /\ ret' = how
    /\ error' = e

\* return / raise inside the with block: the TemporaryDirectory is exited
LeaveWith(how, e, td) ==
    /\ Leave(how, e)
    /\ temp_dir' = TemporaryDirectoryExit(td, how)

PipelineInit ==
    /\ pc = "Idle"
    /\ job = 0
    /\ image_folder = 0
    /\ enable_dissolve = FALSE
    /\ enable_zoom = FALSE
    /\ enable_blur_bg = FALSE
    /\ progress_callback = FALSE
    /\ images = 0
    /\ audio_duration = 0
    /\ duration_per_image = NoDuration
    /\ events = <<>>
    /\ probe_history = <<>>
    /\ use_gpu = FALSE
    /\ i = 0
    /\ clip_files = <<>>
    /\ concat_output = "unset"
    /\ temp_dir = NoTempDir
    /\ outputFile = "absent"
    /\ running = {}
    /\ log = <<>>
    /\ ret = "none"
    /\ error = NoError

\* get_image_files has not returned
NotReturned == [returned |-> FALSE, images |-> <<>>]

\* get_image_files is not running
ResolverIdle ==
    /\ folder_entries = {}
    /\ iter_left = {}
    /\ image_list = <<>>
    /\ resolved = NotReturned

\* ImageVideoCreatorApp.__init__: no generation is running
GuiInit ==
    /\ is_processing = FALSE
    /\ generate_btn = "normal"
    /\ threads = [w \in 1 .. MaxThreads |-> "unstarted"]
    /\ after_queue = <<>>
    /\ calls = 0

\* nothing is displayed
NoDisplay == [video |-> 0, link |-> 0]

\* app_web.py: a new session, before its first script run
WebInit ==
    /\ web_pc = "idle"
    /\ processing = FALSE
    /\ video_ready = FALSE
    /\ video_bytes = 0
    /\ video_name = 0
    /\ drive_link = 0
    /\ google_token = "None"
    /\ google_email = ""
    /\ oauth_flow = FALSE
    /\ query_code = FALSE
    /\ oauth_ret = "none"
    /\ button_disabled = FALSE
    /\ shown = NoDisplay
    /\ generation = 0
    /\ source_mode = "upload"
    /\ upload_to_drive = FALSE

Init == PipelineInit /\ ResolverIdle /\ GuiInit /\ WebInit

\* ----------------------------------------------------- create_video_from_images
\* A caller invokes create_video_from_images; progress message, then check_ffmpeg.
StartJob ==
    /\ pc \in {"Idle", "Done", "Failed"}
    /\ job < MaxJobs
    /\ \E d \in BOOLEAN : enable_dissolve' = d
    /\ \E z \in BOOLEAN : enable_zoom' = z
    /\ \E b \in BOOLEAN : enable_blur_bg' = b
    /\ \E cb \in BOOLEAN :
        /\ progress_callback' = cb
        /\ events' = Callback(<<>>, cb, Msg("Dang kiem tra FFmpeg...", 0))
    /\ duration_per_image' = NoDuration
    /\ \E folder \in FolderStates : image_folder' = folder
    /\ job' = job + 1
    /\ pc' = "check_ffmpeg"
    /\ images' = 0
    /\ audio_duration' = 0
    /\ use_gpu' = FALSE
    /\ i' = 0
    /\ clip_files' = <<>>
    /\ concat_output' = "unset"
    /\ log' = <<>>
    /\ ret' = "none"
    /\ error' = NoError
    /\ UNCHANGED <<resolver_vars, gui_vars, web_vars>>
    /\ UNCHANGED <<temp_dir, outputFile, running, probe_history>>

\* variant: the return code of ffmpeg -version is not looked at
CheckFfmpegResult_always(rc) == TRUE

\* check_ffmpeg: return result.returncode == 0
CheckFfmpegResult(rc) == rc = 0

\* check_ffmpeg: subprocess.run(['ffmpeg', '-version']) is launched
LaunchCheckFfmpeg ==
    /\ pc = "check_ffmpeg"
    /\ \E l \in {"started", "FileNotFoundError", "PermissionError"} :
        /\ Launched("ffmpeg_version", 0, "none", l)
        /\ CASE l = "started" ->
                  /\ pc' = "check_ffmpeg_wait"
                  /\ UNCHANGED <<ret, error>>
             [] l = "FileNotFoundError" ->
                  \* except FileNotFoundError: return False
                  Leave("fail", [msg |-> "FFmpeg khong duoc cai dat!", detail |-> ""])
             [] l = "PermissionError" ->
                  \* any other exception of subprocess.run is not caught
                  Leave("raise", [msg |-> "PermissionError", detail |-> ""])
    /\ events' = Append(events, Work("CheckingTools", 0))
    /\ UNCHANGED <<resolver_vars, gui_vars, web_vars>>
    /\ UNCHANGED <<job, image_folder, enable_dissolve, enable_zoom, enable_blur_bg,
                   progress_callback, duration_per_image, probe_history, images, audio_duration, use_gpu, i, clip_files,
                   concat_output, temp_dir, outputFile>>

ExitCheckFfmpeg ==
    /\ pc = "check_ffmpeg_wait"
    /\ \E rc \in {0, 1} :
        /\ Exited(IF rc = 0 THEN "ok" ELSE "failed", "")
        /\ IF CheckFfmpegResult(rc)
             THEN /\ pc' = "get_image_files"
                  /\ UNCHANGED <<ret, error>>
             ELSE Leave("fail", [msg |-> "FFmpeg khong duoc cai dat!", detail |-> ""])
    /\ UNCHANGED <<resolver_vars, gui_vars, web_vars>>
    /\ UNCHANGED <<job, image_folder, enable_dissolve, enable_zoom, enable_blur_bg,
                   progress_callback, duration_per_image, probe_history, events, images, audio_duration, use_gpu, i, clip_files,
                   concat_output, temp_dir, outputFile>>

\* get_image_files: folder.iterdir() raises when the folder cannot be listed
GetImageFilesRaises(folder) == folder = -1

\* create_video_from_images: if not images
NoImages(n) == n = 0

\* get_image_files and the check of its result
GetImageFiles ==
    /\ pc = "get_image_files"
    /\ LET folder == image_folder IN
        IF GetImageFilesRaises(folder)
          THEN /\ Leave("raise", [msg |-> "FileNotFoundError", detail |-> ""])
               /\ events' = Append(events, Work("ResolvingInputs", 0))
               /\ UNCHANGED images
          ELSE /\ images' = folder
               /\ IF NoImages(folder)
                    THEN /\ Leave("fail", [msg |-> "Khong tim thay anh trong thu muc!",
                                             detail |-> ""])
                         /\ events' = Append(events, Work("ResolvingInputs", 0))
                    ELSE /\ pc' = "get_audio_duration"
                         /\ events' = Callback(Append(events, Work("ResolvingInputs", 0)),
                                               progress_callback, Msg("Tim thay anh", folder))
                         /\ UNCHANGED <<ret, error>>
    /\ UNCHANGED <<resolver_vars, gui_vars, web_vars>>
    /\ UNCHANGED <<job, image_folder, enable_dissolve, enable_zoom, enable_blur_bg,
                   progress_callback, duration_per_image, probe_history, audio_duration, use_gpu, i, clip_files,
                   concat_output, temp_dir, outputFile, running, log>>

\* variant: a failed probe yields a default duration instead of 0.0
GetAudioDuration_default(out) == IF out.kind = "duration" THEN out.value ELSE 9000

\* get_audio_duration: float(data['format']['duration']), except: return 0.0
GetAudioDuration(out) == IF out.kind = "duration" THEN out.value ELSE 0

\* variant: a duration of 0 is accepted
AudioUnreadable_negative(d) == d < 0

\* create_video_from_images: if audio_duration <= 0
AudioUnreadable(d) == d <= 0

\* variant: the audio duration is not divided by the number of images
Divide_total(a, b) == [num |-> a, den |-> 1]

\* duration_per_image = audio_duration / len(images): true division
Divide(a, b) == [num |-> a, den |-> b]

\* get_audio_duration has returned d: the check of the duration, the duration
\* per image and its progress message
AfterAudioProbe(d, ev) ==
    /\ audio_duration' = d
    /\ IF AudioUnreadable(d)
         THEN /\ Leave("fail", [msg |-> "Khong the doc file audio!", detail |-> ""])
              /\ events' = ev
              /\ UNCHANGED duration_per_image
         ELSE /\ pc' = "check_nvenc"
              /\ duration_per_image' = Divide(d, images)
              /\ events' = Callback(ev, progress_callback, Msg("Thoi luong moi anh", 0))
              /\ UNCHANGED <<ret, error>>

\* get_audio_duration: subprocess.run(ffprobe ...) is launched
LaunchAudioProbe ==
    /\ pc = "get_audio_duration"
    /\ \E l \in {"started", "exception"} :
        /\ Launched("ffprobe", 0, "none", l)
        /\ IF l = "started"
             THEN /\ pc' = "get_audio_duration_wait"
                  /\ events' = Append(events, Work("ProbingAudio", 0))
                  /\ UNCHANGED <<audio_duration, duration_per_image, ret, error>>
             ELSE \* subprocess.run raised: except: return 0.0
                  AfterAudioProbe(GetAudioDuration([kind |-> "exception", value |-> 0]),
                                  Append(events, Work("ProbingAudio", 0)))
    /\ UNCHANGED <<resolver_vars, gui_vars, web_vars>>
    /\ UNCHANGED <<job, image_folder, enable_dissolve, enable_zoom, enable_blur_bg,
                   progress_callback, probe_history, images, use_gpu, i, clip_files,
                   concat_output, temp_dir, outputFile>>

\* ffprobe exits and get_audio_duration parses what it printed
ExitAudioProbe ==
    /\ pc = "get_audio_duration_wait"
    /\ \E out \in ProbeOutputs :
        /\ log' = [log EXCEPT ![Len(log)].status = "ok", ![Len(log)].stdout = out.kind]
        /\ running' = running \ {Len(log)}
        /\ AfterAudioProbe(GetAudioDuration(out), events)
    /\ UNCHANGED <<resolver_vars, gui_vars, web_vars>>
    /\ UNCHANGED <<job, image_folder, enable_dissolve, enable_zoom, enable_blur_bg,
                   progress_callback, probe_history, images, use_gpu, i, clip_files,
                   concat_output, temp_dir, outputFile>>

\* variant: a probe that timed out counts as available
CheckNvencResult_timeout(outcome) == outcome \in {"exit0", "timeout"}

\* check_nvenc: return result.returncode == 0, except: return False
CheckNvencResult(outcome) == outcome = "exit0"

\* variant: a process-wide flag keeps the result of the first probe
SelectedBackend_cached(hist, probed) == IF hist # <<>> THEN hist[1] ELSE probed

\* use_gpu = check_nvenc(): the result of this call and nothing else
SelectedBackend(hist, probed) == probed

\* check_nvenc has returned: use_gpu is set, its progress message is delivered
\* and the with block is entered
AfterCheckNvenc(probed, ev) ==
    LET gpu == SelectedBackend(probe_history, probed) IN
    /\ use_gpu' = gpu
    /\ probe_history' = Append(probe_history, gpu)
    /\ events' = Callback(ev, progress_callback,
                          Msg("Su dung GPU/CPU de encode", IF gpu THEN 1 ELSE 0))
    /\ temp_dir' = TemporaryDirectoryEnter
    /\ pc' = "render"

\* check_nvenc: the trial encode is launched
LaunchCheckNvenc ==
    /\ pc = "check_nvenc"
    /\ \E l \in {"started", "exception"} :
        /\ Launched("nvenc_probe", 0, "h264_nvenc", l)
        /\ IF l = "started"
             THEN /\ pc' = "check_nvenc_wait"
                  /\ events' = Append(events, Work("SelectingBackend", 0))
                  /\ UNCHANGED <<use_gpu, temp_dir, probe_history>>
             ELSE \* except: return False
                  AfterCheckNvenc(CheckNvencResult(l),
                                  Append(events, Work("SelectingBackend", 0)))
    /\ UNCHANGED <<resolver_vars, gui_vars, web_vars>>
    /\ UNCHANGED <<job, image_folder, enable_dissolve, enable_zoom, enable_blur_bg,
                   progress_callback, duration_per_image, images, audio_duration, i,
                   clip_files, concat_output, outputFile, ret, error>>

\* check_nvenc returns (exit, or timeout=10 expired)
ExitCheckNvenc ==
    /\ pc = "check_nvenc_wait"
    /\ \E outcome \in ExitOutcomes("nvenc_probe") :
        /\ Exited(ExitStatus(outcome), "")
        /\ AfterCheckNvenc(CheckNvencResult(outcome), events)
    /\ UNCHANGED <<resolver_vars, gui_vars, web_vars>>
    /\ UNCHANGED <<job, image_folder, enable_dissolve, enable_zoom, enable_blur_bg,
                   progress_callback, duration_per_image, images, audio_duration, i,
                   clip_files, concat_output, outputFile, ret, error>>

\* variant: the return code of the process is not looked at
RunFfmpegCommand_ignore(outcome) == TRUE

\* run_ffmpeg_command: (True, None) iff the process was started and exited with 0
RunFfmpegCommand(outcome) == outcome = "exit0"

\* run_ffmpeg_command: the error it returns, stderr or str(e)
RunFfmpegError(outcome, text) == IF outcome = "exception" THEN "launch_error" ELSE text

\* clip render: if use_gpu: '-c:v', 'h264_nvenc' else '-c:v', 'libx264'
RenderCodec(gpu) == IF gpu THEN "h264_nvenc" ELSE "libx264"

\* cross-fade re-encode: if use_gpu: '-c:v', 'h264_nvenc' else '-c:v', 'libx264'
XfadeCodec(gpu) == IF gpu THEN "h264_nvenc" ELSE "libx264"

\* variant: the mux always encodes in software
FinalEncodeCodec_software(gpu) == "libx264"

\* _final_encode: if use_gpu: '-c:v', 'h264_nvenc' else '-c:v', 'libx264'
FinalEncodeCodec(gpu) == IF gpu THEN "h264_nvenc" ELSE "libx264"

\* fps = 30
Fps == 30

\* duration_frames = int(duration_per_image * fps), the duration being in ms
DurationFrames(d, fps) == (d.num * fps) \div (d.den * 1000)

\* one term of a filter graph; z, d and fps are set for zoompan only
Term(name) == [name |-> name, z |-> "", d |-> 0, fps |-> 0]
Zoompan(frames, fps) == [name |-> "zoompan", z |-> "1+0.1*on/d", d |-> frames, fps |-> fps]

\* variant: the blur branch is tested first and ignores enable_zoom
BuildImageFilter_blurfirst(zoom, blur, frames, fps) ==
    IF blur
      THEN <<Term("split"), Term("scale_cover"), Term("crop"), Term("boxblur"),
             Term("scale_fit_min"), Term("overlay")>>
      ELSE IF zoom
        THEN <<Term("scale_fit"), Term("pad"), Zoompan(frames, fps)>>
        ELSE <<Term("scale_fit"), Term("pad")>>

\* _build_image_filter: the filter graph of one image, as the list of its terms
BuildImageFilter(zoom, blur, frames, fps) ==
    IF blur /\ zoom
      THEN <<Term("split"), Term("scale_cover"), Term("crop"), Term("boxblur"),
             Term("scale_fit_height"), Zoompan(frames, fps), Term("overlay")>>
      ELSE IF blur
        THEN <<Term("split"), Term("scale_cover"), Term("crop"), Term("boxblur"),
               Term("scale_fit_min"), Term("overlay")>>
        ELSE IF zoom
          THEN <<Term("scale_fit"), Term("pad"), Zoompan(frames, fps)>>
          ELSE <<Term("scale_fit"), Term("pad")>>

\* clip render of _create_video_simple: the encoder arguments
SimpleCodecOptions(gpu) ==
    IF gpu THEN <<"-c:v", "h264_nvenc", "-preset", "p4", "-cq", "18", "-gpu", "0">>
           ELSE <<"-threads", "CPU_THREADS", "-c:v", "libx264", "-preset", "fast",
                  "-crf", "18">>

\* clip render of _create_video_with_dissolve: the encoder arguments
DissolveCodecOptions(gpu) ==
    IF gpu THEN <<"-c:v", "h264_nvenc", "-preset", "p4", "-cq", "18", "-gpu", "0">>
           ELSE <<"-threads", "CPU_THREADS", "-c:v", "libx264", "-preset", "fast",
                  "-crf", "18">>

\* _create_video_simple: the ffmpeg command that renders image c into clip c
SimpleRenderCmd(c) ==
    LET duration_frames == DurationFrames(duration_per_image, Fps) IN
    [Cmd("render", c, RenderCodec(use_gpu), "running") EXCEPT
        !.image = c,
        !.duration = duration_per_image,
        !.frames = duration_frames,
        !.vf = BuildImageFilter(enable_zoom, enable_blur_bg, duration_frames, Fps),
        !.opts = <<"-y", "-loop", "1", "-r", "fps">> \o SimpleCodecOptions(use_gpu)
                     \o <<"-an">>]

\* dissolve_duration = 1.0, in milliseconds
DissolveDuration == 1000

\* variant: every clip is extended by the overlap a transition consumes
EffectiveDuration_extended(d) == [num |-> d.num + DissolveDuration * d.den, den |-> d.den]

\* effective_duration = duration_per_image
EffectiveDuration(d) == d

\* _create_video_with_dissolve: the ffmpeg command that renders image c into clip c
DissolveRenderCmd(c) ==
    LET effective_duration == EffectiveDuration(duration_per_image)
        duration_frames == DurationFrames(effective_duration, Fps)
    IN  [Cmd("render", c, RenderCodec(use_gpu), "running") EXCEPT
            !.image = c,
            !.duration = effective_duration,
            !.frames = duration_frames,
            !.vf = BuildImageFilter(enable_zoom, enable_blur_bg, duration_frames, Fps),
            !.opts = <<"-y", "-loop", "1", "-r", "fps">> \o DissolveCodecOptions(use_gpu)
                         \o <<"-an">>]

\* the ffmpeg command that renders clip c, by the strategy of the job
RenderCmd(c) == IF enable_dissolve THEN DissolveRenderCmd(c) ELSE SimpleRenderCmd(c)

\* variant: the message of a clip is delivered after its render was launched
RenderEvents_late(ev, cb, c) ==
    Callback(Append(ev, Work("RenderingClips", c)), cb, Msg("Xu ly anh", c))

\* the clip loop: progress message, then the render of clip c begins
RenderEvents(ev, cb, c) ==
    Append(Callback(ev, cb, Msg("Xu ly anh", c)), Work("RenderingClips", c))

\* variant: the loop index does not advance
NextIndex_same(k) == k

\* enumerate(images): the index of the next image
NextIndex(k) == k + 1

\* variant: the loop stops one image early
LoopContinues_short(k, n) == k + 2 < n

\* for i, img_path in enumerate(images): is there a next image
LoopContinues(k, n) == k + 1 < n

\* a clip was rendered: the loop goes to the next image or ends
NextClip ==
    /\ UNCHANGED <<ret, error>>
    /\ IF LoopContinues(i, images)
         THEN /\ i' = NextIndex(i)
              /\ pc' = "render"
         ELSE /\ pc' = "assemble"
              /\ UNCHANGED i

\* _create_video_simple / _create_video_with_dissolve: one clip render is launched
LaunchRender ==
    /\ pc = "render"
    /\ clip_files' = Append(clip_files, i)
    /\ \E l \in {"started", "exception"} :
        /\ LaunchedCmd(RenderCmd(i), l)
        /\ IF l = "started"
             THEN /\ pc' = "render_wait"
                  /\ UNCHANGED <<i, ret, error, temp_dir>>
             ELSE IF RunFfmpegCommand(l)
                    THEN /\ temp_dir' = temp_dir
                         /\ NextClip
                    ELSE /\ LeaveWith("fail", [msg |-> "Loi xu ly anh",
                                               detail |-> RunFfmpegError(l, "")], temp_dir)
                         /\ UNCHANGED i
    /\ events' = RenderEvents(events, progress_callback, i)
    /\ UNCHANGED <<resolver_vars, gui_vars, web_vars>>
    /\ UNCHANGED <<job, image_folder, enable_dissolve, enable_zoom, enable_blur_bg,
                   progress_callback, duration_per_image, probe_history, images, audio_duration, use_gpu,
                   concat_output, outputFile>>

\* the clip render process exits
ExitRender ==
    /\ pc = "render_wait"
    /\ \E outcome \in ExitOutcomes("render"), text \in StderrTexts :
        /\ Exited(ExitStatus(outcome),
                  IF outcome = "exit0" THEN "" ELSE text)
        /\ LET td == IF outcome = "exit0"
                       THEN [temp_dir EXCEPT !.clips = @ \cup {i}]
                       ELSE temp_dir
           IN  IF RunFfmpegCommand(outcome)
                 THEN /\ temp_dir' = td
                      /\ NextClip
                 ELSE /\ LeaveWith("fail", [msg |-> "Loi xu ly anh",
                                            detail |-> RunFfmpegError(outcome, text)], td)
                      /\ UNCHANGED i
    /\ UNCHANGED <<resolver_vars, gui_vars, web_vars>>
    /\ UNCHANGED <<job, image_folder, enable_dissolve, enable_zoom, enable_blur_bg,
                   progress_callback, duration_per_image, probe_history, events, images, audio_duration, use_gpu, clip_files,
                   concat_output, outputFile>>

\* the message prefix of a failed assembly
AssembleError == IF enable_dissolve THEN "Loi tao chuyen canh" ELSE "Loi ghep video"

\* the file the assembly command writes
AssembleOutput == IF enable_dissolve THEN "dissolve_output.mp4" ELSE "concat_output.mp4"

\* the progress message that announces the assembly
AssembleMsg ==
    IF enable_dissolve THEN "Dang ap dung chuyen canh dissolve..." ELSE "Dang ghep video..."

\* progress message, then the assembly begins
AssembleEvents(ev, cb) == Append(Callback(ev, cb, Msg(AssembleMsg, 0)), Work("AssemblingTimeline", 0))

\* the progress message delivered before _final_encode is called
MuxMsg(ev, cb) == Callback(ev, cb, Msg("Dang them audio va xuat file cuoi cung...", 0))

\* variant: a single clip is sent through the transition chain like any other
SingleClip_never(n) == FALSE

\* len(clip_files) == 1
SingleClip(n) == n = 1

\* variant: the manifest lists the clips last to first
Manifest_reversed(clips) == [k \in 1 .. Len(clips) |-> clips[Len(clips) + 1 - k]]

\* concat.txt: one "file '<clip>'" line per element of clip_files, in list order
Manifest(clips) == [k \in 1 .. Len(clips) |-> clips[k]]

\* ffmpeg -f concat -safe 0 -i concat.txt -c copy concat_output.mp4
ConcatCmd(concat_file) ==
    [Cmd("concat", 0, "copy", "running") EXCEPT
        !.inputs = concat_file, !.opts = <<"-y", "-f", "concat", "-safe", "0">>]

\* arithmetic on durations: d - ms, k * d and a + b
Minus(d, ms) == [num |-> d.num - ms * d.den, den |-> d.den]
Times(k, d) == [num |-> k * d.num, den |-> d.den]
Plus(a, b) == [num |-> a.num * b.den + b.num * a.den, den |-> a.den * b.den]

\* the labels of a filter chain: [k:v], [vk] and no label
RawInput(k) == [kind |-> "input", n |-> k]
Label(k) == [kind |-> "v", n |-> k]
NoLabel == [kind |-> "none", n |-> 0]

\* variant: the dissolve is dropped when a clip is not longer than it
DissolveDurationFor_clamped(d) == IF d.num <= DissolveDuration * d.den THEN 0 ELSE DissolveDuration

\* the dissolve_duration used for clips of duration d: always 1.0
DissolveDurationFor(d) == DissolveDuration

\* variant: the offsets advance by the whole clip duration
CurrentOffset_unshortened(k, effective_duration, dissolve_duration) ==
    Plus(Minus(effective_duration, dissolve_duration), Times(k, effective_duration))

\* current_offset = offset + i * (effective_duration - dissolve_duration), with
\* offset = effective_duration - dissolve_duration
CurrentOffset(k, effective_duration, dissolve_duration) ==
    Plus(Minus(effective_duration, dissolve_duration),
         Times(k, Minus(effective_duration, dissolve_duration)))

\* variant: every cross-fade writes a label, the last one too
OutputLabel_always(k, n) == Label(k + 1)

\* output_label: "" for the last cross-fade, [v{i+1}] before
OutputLabel(k, n) == IF k = n - 2 THEN NoLabel ELSE Label(k + 1)

\* filter_parts: cross-fade k = 0 .. n-2 of the chain over n clips
XfadeChain(n, effective_duration, dissolve_duration) ==
    [p \in 1 .. n - 1 |->
        LET k == p - 1 IN
        [in1 |-> IF k = 0 THEN RawInput(0) ELSE Label(k),
         in2 |-> RawInput(k + 1),
         duration |-> dissolve_duration,
         offset |-> CurrentOffset(k, effective_duration, dissolve_duration),
         out |-> OutputLabel(k, n)]]

\* ffmpeg -i clip_0 ... -i clip_n-1 -filter_complex <chain> ... dissolve_output.mp4
XfadeCmd ==
    LET effective_duration == EffectiveDuration(duration_per_image) IN
    [Cmd("xfade", 0, XfadeCodec(use_gpu), "running") EXCEPT
        !.inputs = clip_files,
        !.chain = XfadeChain(Len(clip_files), effective_duration,
                             DissolveDurationFor(effective_duration)),
        !.opts = <<"-y">> \o DissolveCodecOptions(use_gpu) \o <<"-an">>]

\* the assembly step up to the launch of its command: the concat manifest is
\* written and ffmpeg -f concat is launched, or the xfade chain is launched,
\* or (dissolve, one clip) the clip itself becomes the timeline
LaunchAssemble ==
    /\ pc = "assemble"
    /\ IF enable_dissolve /\ SingleClip(Len(clip_files))
         THEN /\ concat_output' = "clip_0000.mp4"
              /\ pc' = "final_encode"
              /\ UNCHANGED <<temp_dir, running, log, ret, error>>
         ELSE \E w \in {"ok", "OSError"}, l \in {"started", "exception"} :
              IF ~enable_dissolve /\ w = "OSError"
                THEN \* open(concat_file, 'w') / f.write raises inside the with block
                     /\ LeaveWith("raise", [msg |-> "OSError", detail |-> ""], temp_dir)
                     /\ UNCHANGED <<concat_output, running, log>>
                ELSE LET td == IF enable_dissolve THEN temp_dir
                                ELSE [temp_dir EXCEPT !.concat_txt = Manifest(clip_files)]
                     IN  /\ w = "ok"
                         /\ concat_output' = AssembleOutput
                         /\ LaunchedCmd(IF enable_dissolve THEN XfadeCmd
                                        ELSE ConcatCmd(td.concat_txt), l)
                         /\ IF l = "started"
                              THEN /\ pc' = "assemble_wait"
                                   /\ temp_dir' = td
                                   /\ UNCHANGED <<ret, error>>
                              ELSE IF RunFfmpegCommand(l)
                                     THEN /\ pc' = "final_encode"
                                          /\ temp_dir' = td
                                          /\ UNCHANGED <<ret, error>>
                                     ELSE LeaveWith("fail", [msg |-> AssembleError,
                                                    detail |-> RunFfmpegError(l, "")], td)
    /\ events' = IF pc' = "final_encode"
                   THEN MuxMsg(AssembleEvents(events, progress_callback), progress_callback)
                   ELSE AssembleEvents(events, progress_callback)
    /\ UNCHANGED <<resolver_vars, gui_vars, web_vars>>
    /\ UNCHANGED <<job, image_folder, enable_dissolve, enable_zoom, enable_blur_bg,
                   progress_callback, duration_per_image, probe_history, images, audio_duration, use_gpu, i, clip_files,
                   outputFile>>

\* the concat / xfade process exits
ExitAssemble ==
    /\ pc = "assemble_wait"
    /\ \E outcome \in ExitOutcomes(IF enable_dissolve THEN "xfade" ELSE "concat"), text \in StderrTexts :
        /\ Exited(ExitStatus(outcome),
                  IF outcome = "exit0" THEN "" ELSE text)
        /\ LET td == IF outcome # "exit0" THEN temp_dir
                     ELSE IF enable_dissolve
                            THEN [temp_dir EXCEPT !.dissolve_output = TRUE]
                            ELSE [temp_dir EXCEPT !.concat_output = TRUE]
           IN  IF RunFfmpegCommand(outcome)
                 THEN /\ temp_dir' = td
                      /\ pc' = "final_encode"
                      /\ UNCHANGED <<ret, error>>
                 ELSE LeaveWith("fail", [msg |-> AssembleError,
                                         detail |-> RunFfmpegError(outcome, text)], td)
    /\ events' = IF pc' = "final_encode" THEN MuxMsg(events, progress_callback) ELSE events
    /\ UNCHANGED <<resolver_vars, gui_vars, web_vars>>
    /\ UNCHANGED <<job, image_folder, enable_dissolve, enable_zoom, enable_blur_bg,
                   progress_callback, duration_per_image, probe_history, images, audio_duration, use_gpu, i, clip_files,
                   concat_output, outputFile>>

\* the ffmpeg command of _final_encode: video_path and audio_path in, output_path out
MuxCmd == [Cmd("mux", 0, FinalEncodeCodec(use_gpu), "running") EXCEPT !.input = concat_output]

\* progress_callback("Hoan thanh!") on success
DoneMsg(ev, cb, r) == IF r = "ok" THEN Callback(ev, cb, Msg("Hoan thanh!", 0)) ELSE ev

\* _final_encode: the mux command is launched
LaunchFinalEncode ==
    /\ pc = "final_encode"
    /\ \E l \in {"started", "exception"} :
        /\ LaunchedCmd(MuxCmd, l)
        /\ IF l = "started"
             THEN /\ pc' = "final_encode_wait"
                  /\ UNCHANGED <<ret, error, temp_dir>>
             ELSE IF RunFfmpegCommand(l)
                    THEN LeaveWith("ok", NoError, temp_dir)
                    ELSE LeaveWith("fail", [msg |-> "Loi xuat video",
                                            detail |-> RunFfmpegError(l, "")], temp_dir)
    /\ events' = DoneMsg(Append(events, Work("Muxing", 0)), progress_callback, ret')
    /\ UNCHANGED <<resolver_vars, gui_vars, web_vars>>
    /\ UNCHANGED <<job, image_folder, enable_dissolve, enable_zoom, enable_blur_bg,
                   progress_callback, duration_per_image, probe_history, images, audio_duration, use_gpu, i, clip_files,
                   concat_output, outputFile>>

\* the mux process exits; it writes straight to output_path (ffmpeg -y), and a
\* failing run may or may not have created the file already
ExitFinalEncode ==
    /\ pc = "final_encode_wait"
    /\ \E outcome \in ExitOutcomes("mux"), text \in StderrTexts, wrote \in BOOLEAN :
        /\ Exited(ExitStatus(outcome),
                  IF outcome = "exit0" THEN "" ELSE text)
        /\ outputFile' = IF outcome = "exit0" THEN "complete"
                         ELSE IF wrote THEN "partial" ELSE outputFile
        /\ IF RunFfmpegCommand(outcome)
             THEN LeaveWith("ok", NoError, temp_dir)
             ELSE LeaveWith("fail", [msg |-> "Loi xuat video",
                                     detail |-> RunFfmpegError(outcome, text)], temp_dir)
    /\ events' = DoneMsg(events, progress_callback, ret')
    /\ UNCHANGED <<resolver_vars, gui_vars, web_vars>>
    /\ UNCHANGED <<job, image_folder, enable_dissolve, enable_zoom, enable_blur_bg,
                   progress_callback, duration_per_image, probe_history, images, audio_duration, use_gpu, i, clip_files,
                   concat_output>>

Next ==
    \/ StartJob
    \/ LaunchCheckFfmpeg
    \/ ExitCheckFfmpeg
    \/ GetImageFiles
    \/ LaunchAudioProbe
    \/ ExitAudioProbe
    \/ LaunchCheckNvenc
    \/ ExitCheckNvenc
    \/ LaunchRender
    \/ ExitRender
    \/ LaunchAssemble
    \/ ExitAssemble
    \/ LaunchFinalEncode
    \/ ExitFinalEncode

Spec == Init /\ [][Next]_vars

\* a step of a started job: of the handler itself, or the exit of a process it
\* waits for
JobStep ==
    \/ LaunchCheckFfmpeg \/ ExitCheckFfmpeg \/ GetImageFiles
    \/ LaunchAudioProbe \/ ExitAudioProbe \/ LaunchCheckNvenc \/ ExitCheckNvenc
    \/ LaunchRender \/ ExitRender \/ LaunchAssemble \/ ExitAssemble
    \/ LaunchFinalEncode \/ ExitFinalEncode

\* the thread that runs the job keeps running, and every external process it
\* waits for exits (check_nvenc stops waiting after timeout=10 in any case)
SpecFair == Spec /\ WF_vars(JobStep)

\* ------------------------------------------------------------ get_image_files
\* A file name is the sequence of its characters.
Img1Png == <<"i", "m", "g", "1", ".", "p", "n", "g">>
Img2Png == <<"i", "m", "g", "2", ".", "p", "n", "g">>
Img10Png == <<"i", "m", "g", "1", "0", ".", "p", "n", "g">>
Img02Jpeg == <<"i", "m", "g", "0", "2", ".", "j", "p", "e", "g">>
UpperImg2Png == <<"I", "M", "G", "2", ".", "P", "N", "G">>
NotesTxt == <<"a", ".", "t", "x", "t">>
DirPng == <<"d", ".", "p", "n", "g">>

\* what a folder can hold: regular files and one sub-directory named like an image
DirEntries ==
    {[name |-> n, is_file |-> TRUE] :
        n \in {Img1Png, Img2Png, Img10Png, Img02Jpeg, UpperImg2Png, NotesTxt}}
        \cup {[name |-> DirPng, is_file |-> FALSE]}

\* ord(ch)
CodePoint(ch) ==
    CASE ch = "." -> 46
      [] ch = "0" -> 48 [] ch = "1" -> 49 [] ch = "2" -> 50
      [] ch = "G" -> 71 [] ch = "I" -> 73 [] ch = "M" -> 77 [] ch = "N" -> 78
      [] ch = "P" -> 80
      [] ch = "a" -> 97 [] ch = "d" -> 100 [] ch = "e" -> 101 [] ch = "g" -> 103
      [] ch = "i" -> 105 [] ch = "j" -> 106 [] ch = "m" -> 109 [] ch = "n" -> 110
      [] ch = "p" -> 112 [] ch = "t" -> 116 [] ch = "x" -> 120

\* str.lower(), character by character
LowerChar(ch) ==
    CASE ch = "G" -> "g" [] ch = "I" -> "i" [] ch = "M" -> "m" [] ch = "N" -> "n"
      [] ch = "P" -> "p" [] OTHER -> ch
Lower(name) == [k \in 1 .. Len(name) |-> LowerChar(name[k])]

\* Path.suffix: the name from its last dot on, '' when there is none or the name
\* begins or ends with it
Suffix(name) ==
    LET dots == {k \in 1 .. Len(name) : name[k] = "."} IN
    IF dots = {} THEN <<>>
    ELSE LET p == CHOOSE k \in dots : \A j \in dots : j <= k IN
         IF p > 1 /\ p < Len(name) THEN SubSeq(name, p, Len(name)) ELSE <<>>

\* image_extensions
ImageExtensions ==
    {<<".", "j", "p", "g">>, <<".", "j", "p", "e", "g">>, <<".", "p", "n", "g">>,
     <<".", "b", "m", "p">>, <<".", "w", "e", "b", "p">>, <<".", "t", "i", "f", "f">>,
     <<".", "g", "i", "f">>}

\* f.is_file() and f.suffix.lower() in image_extensions
IsImage(f) == f.is_file /\ Lower(Suffix(f.name)) \in ImageExtensions

IsDigit(ch) == ch \in {"0", "1", "2"}

\* int(text) of a run of digits
RECURSIVE IntOf(_)
IntOf(text) ==
    IF text = <<>> THEN 0
    ELSE 10 * IntOf(SubSeq(text, 1, Len(text) - 1)) + (CodePoint(text[Len(text)]) - 48)

\* the length of the first run of s: digits only, or no digit
RunLength(s) ==
    CHOOSE n \in 1 .. Len(s) :
        /\ \A k \in 1 .. n : IsDigit(s[k]) = IsDigit(s[1])
        /\ n = Len(s) \/ IsDigit(s[n + 1]) # IsDigit(s[1])

\* natsort: the name split into runs of digits (as numbers) and of other characters
RECURSIVE Runs(_)
Runs(s) ==
    IF s = <<>> THEN <<>>
    ELSE LET n == RunLength(s) IN
         <<[digit |-> IsDigit(s[1]), text |-> SubSeq(s, 1, n),
            value |-> IF IsDigit(s[1]) THEN IntOf(SubSeq(s, 1, n)) ELSE 0]>>
             \o Runs(SubSeq(s, n + 1, Len(s)))

\* variant: digits are not split off, the key is the name as one string
NatKey_plain(s) == <<[digit |-> FALSE, text |-> s, value |-> 0]>>

\* natsort key: runs alternate, beginning with a string ('' before a leading number)
NatKey(s) ==
    LET r == Runs(s) IN
    IF r # <<>> /\ r[1].digit
      THEN <<[digit |-> FALSE, text |-> <<>>, value |-> 0]>> \o r
      ELSE r

\* str < str: by code point, a proper prefix first
StrLess(a, b) ==
    \E k \in 1 .. Len(b) :
        /\ \A j \in 1 .. k - 1 : j <= Len(a) /\ a[j] = b[j]
        /\ k > Len(a) \/ (k - 1 < Len(a) /\ CodePoint(a[k]) < CodePoint(b[k]))

\* comparison of two elements of a key
RunLess(x, y) == IF x.digit /\ y.digit THEN x.value < y.value ELSE StrLess(x.text, y.text)
RunEqual(x, y) == IF x.digit /\ y.digit THEN x.value = y.value ELSE x.text = y.text

\* tuple < tuple
KeyLess(a, b) ==
    \E k \in 1 .. Len(b) :
        /\ \A j \in 1 .. k - 1 : j <= Len(a) /\ RunEqual(a[j], b[j])
        /\ k > Len(a) \/ (k - 1 < Len(a) /\ RunLess(a[k], b[k]))

\* key=lambda x: x.name.lower()
SortKey(f) == NatKey(Lower(f.name))

\* x goes behind every element of the sorted list that is not greater than it
Insert(x, sorted) ==
    LET behind == {k \in 1 .. Len(sorted) : ~KeyLess(SortKey(x), SortKey(sorted[k]))}
        p == IF behind = {} THEN 0 ELSE CHOOSE k \in behind : \A j \in behind : j <= k
    IN  SubSeq(sorted, 1, p) \o <<x>> \o SubSeq(sorted, p + 1, Len(sorted))

\* natsorted(images, key=...): a stable sort
RECURSIVE Natsorted(_)
Natsorted(list) ==
    IF list = <<>> THEN <<>>
    ELSE Insert(list[Len(list)], Natsorted(SubSeq(list, 1, Len(list) - 1)))

\* get_image_files is called on a folder
ResolverInit ==
    /\ \E entries \in SUBSET DirEntries : folder_entries = entries /\ iter_left = entries
    /\ image_list = <<>>
    /\ resolved = NotReturned

InitResolver == PipelineInit /\ ResolverInit /\ GuiInit /\ WebInit

\* for f in folder.iterdir(): the listing yields the entries once each, in any
\* order; an image file is appended to images
IterdirNext ==
    /\ iter_left # {}
    /\ \E f \in iter_left :
        /\ iter_left' = iter_left \ {f}
        /\ image_list' = IF IsImage(f) THEN Append(image_list, f) ELSE image_list
    /\ UNCHANGED <<folder_entries, resolved, pipeline_vars, gui_vars, web_vars>>

\* return natsorted(images, key=lambda x: x.name.lower())
ReturnNatsorted ==
    /\ iter_left = {}
    /\ ~resolved.returned
    /\ resolved' = [returned |-> TRUE, images |-> Natsorted(image_list)]
    /\ UNCHANGED <<folder_entries, iter_left, image_list, pipeline_vars, gui_vars, web_vars>>

NextResolver == IterdirNext \/ ReturnNatsorted

SpecResolver == InitResolver /\ [][NextResolver]_vars
\* ------------------------------------------------------------------ gui.py
\* the threads created so far
Started == {w \in 1 .. MaxThreads : threads[w] # "unstarted"}

\* variant: _start_generation does not look at is_processing
AlreadyProcessing_off(p) == FALSE

\* _start_generation: if self.is_processing: return
AlreadyProcessing(p) == p

\* _start_generation, run by the main loop for a click on the generate button:
\* it returns when a generation is running or the inputs are not valid, else it
\* sets is_processing, disables the button and starts the worker thread
StartGeneration ==
    /\ calls < MaxCalls
    /\ calls' = calls + 1
    /\ \E valid \in BOOLEAN :
        IF AlreadyProcessing(is_processing) \/ ~valid
          THEN UNCHANGED <<is_processing, generate_btn, threads, after_queue>>
          ELSE /\ Cardinality(Started) < MaxThreads
               /\ is_processing' = TRUE
               /\ generate_btn' = "disabled"
               /\ threads' = [threads EXCEPT ![Cardinality(Started) + 1] = "generating"]
               /\ UNCHANGED after_queue
    /\ UNCHANGED <<pipeline_vars, resolver_vars, web_vars>>

\* _generate_video in worker w: create_video_from_images returns or raises, and
\* the call of _generation_complete is queued for the main loop
GenerateVideo(w) ==
    /\ threads[w] = "generating"
    /\ \E outcome \in {"ok", "fail", "raise"} :
        after_queue' = Append(after_queue, [worker |-> w, outcome |-> outcome])
    /\ threads' = [threads EXCEPT ![w] = "queued"]
    /\ UNCHANGED <<is_processing, generate_btn, calls, pipeline_vars, resolver_vars, web_vars>>

\* worker w returns from _generate_video: the thread ends
ThreadExit(w) ==
    /\ threads[w] = "queued"
    /\ threads' = [threads EXCEPT ![w] = "exited"]
    /\ UNCHANGED <<is_processing, generate_btn, after_queue, calls, pipeline_vars,
                   resolver_vars, web_vars>>

\* _generation_complete: is_processing is reset and the button enabled again
GenerationComplete ==
    /\ is_processing' = FALSE
    /\ generate_btn' = "normal"

\* the queued lambda can evaluate its arguments: success, error and output_path
\* are locals of _generate_video, but the lambda queued in the except clause
\* reads e, which Python unbinds when the worker leaves that clause
LambdaEvaluates(cb) == cb.outcome # "raise" \/ threads[cb.worker] = "queued"

\* the main loop runs the first queued callback: the lambda calls
\* _generation_complete, or raises NameError on str(e) and Tk reports it
RunAfterCallback ==
    /\ after_queue # <<>>
    /\ after_queue' = Tail(after_queue)
    /\ IF LambdaEvaluates(Head(after_queue))
         THEN GenerationComplete
         ELSE UNCHANGED <<is_processing, generate_btn>>
    /\ UNCHANGED <<threads, calls, pipeline_vars, resolver_vars, web_vars>>

NextGui ==
    \/ StartGeneration
    \/ \E w \in 1 .. MaxThreads : GenerateVideo(w)
    \/ \E w \in 1 .. MaxThreads : ThreadExit(w)
    \/ RunAfterCallback

SpecGui == Init /\ [][NextGui]_vars

\* a step of a worker thread or of the main loop's callback queue
GuiStep ==
    \/ \E w \in 1 .. MaxThreads : GenerateVideo(w)
    \/ \E w \in 1 .. MaxThreads : ThreadExit(w)
    \/ RunAfterCallback

\* the worker threads and the main loop keep running
SpecGuiFair == SpecGui /\ WF_vars(GuiStep)

\* ======================================================== web front end
\* drive_service.is_connected
is_connected(token) == token # "None"

\* how the calls to Google in handle_oauth_callback can end
OauthOutcomes == {"ok", "fetch_token_fails", "userinfo_fails"}

\* how get_auth_url can end
AuthUrlOutcomes == {"ok", "no_config"}

\* drive_service.handle_oauth_callback: the session's token and email after
\* the call, and the value returned
handle_oauth_callback(token, email, flow, o) ==
    IF ~flow \/ o = "fetch_token_fails"
    THEN [google_token |-> token, google_email |-> email, ret |-> "False"]
    ELSE IF o = "userinfo_fails"
    THEN [google_token |-> "token", google_email |-> email, ret |-> "False"]
    ELSE [google_token |-> "token", google_email |-> "email", ret |-> "True"]

\* drive_service.get_auth_url: is a flow stored in the session afterwards
get_auth_url(flow, g) == IF g = "ok" THEN TRUE ELSE flow

\* the sidebar of one script run, from the session as the run finds it
Sidebar(token, email, flow, code, o, g) ==
    IF is_connected(token)
    THEN [google_token |-> token, google_email |-> email, oauth_flow |-> flow,
          query_code |-> code, oauth_ret |-> "none"]
    ELSE IF code
    THEN LET r == handle_oauth_callback(token, email, flow, o)
         IN  [google_token |-> r.google_token, google_email |-> r.google_email,
              oauth_flow |-> flow,
              query_code |-> IF r.ret = "True" THEN FALSE ELSE code,
              oauth_ret |-> r.ret]
    ELSE [google_token |-> token, google_email |-> email,
          oauth_flow |-> get_auth_url(flow, g), query_code |-> code,
          oauth_ret |-> "none"]

\* the session after the sidebar of a script run
RunSidebar(token, email) ==
    \E o \in OauthOutcomes, g \in AuthUrlOutcomes :
        LET sb == Sidebar(token, email, oauth_flow, query_code, o, g)
        IN  /\ google_token' = sb.google_token
            /\ google_email' = sb.google_email
            /\ oauth_flow' = sb.oauth_flow
            /\ query_code' = sb.query_code
            /\ oauth_ret' = sb.oauth_ret

\* the result section of one script run
Display(ready, bytes, link) ==
    IF ready /\ bytes # 0 THEN [video |-> bytes, link |-> link] ELSE NoDisplay

\* the browser comes back from Google with ?code=... in the address
OauthRedirect ==
    /\ web_pc = "idle"
    /\ ~query_code
    /\ query_code' = TRUE
    /\ UNCHANGED <<web_pc, processing, video_ready, video_bytes, video_name, drive_link,
                   google_token, google_email, oauth_flow, oauth_ret, button_disabled,
                   shown, generation, source_mode, upload_to_drive>>
    /\ UNCHANGED <<pipeline_vars, resolver_vars, gui_vars>>

\* one run of the script in which no button is handled
ScriptRun ==
    /\ web_pc = "idle"
    /\ RunSidebar(google_token, google_email)
    /\ button_disabled' = processing
    /\ shown' = Display(video_ready, video_bytes, drive_link)
    /\ UNCHANGED <<web_pc, processing, video_ready, video_bytes, video_name, drive_link,
                   generation, source_mode, upload_to_drive>>
    /\ UNCHANGED <<pipeline_vars, resolver_vars, gui_vars>>

\* the disconnect button: disconnect(), then st.rerun()
Disconnect ==
    /\ web_pc = "idle"
    /\ is_connected(google_token)
    /\ RunSidebar("None", "")
    /\ button_disabled' = processing
    /\ shown' = Display(video_ready, video_bytes, drive_link)
    /\ UNCHANGED <<web_pc, processing, video_ready, video_bytes, video_name, drive_link,
                   generation, source_mode, upload_to_drive>>
    /\ UNCHANGED <<pipeline_vars, resolver_vars, gui_vars>>

\* a click on the generate button: the script run up to the temporary directory
\* (a sidebar that ends in st.rerun() never reaches the button: that is ScriptRun)
GenerateStart ==
    /\ web_pc = "idle"
    /\ ~button_disabled
    /\ generation < MaxGenerations
    /\ RunSidebar(google_token, google_email)
    /\ oauth_ret' # "True"
    /\ button_disabled' = processing
    /\ \E mode \in {"upload", "drive"}, upload \in BOOLEAN, has_images, has_audio \in BOOLEAN :
        /\ mode = "drive" => is_connected(google_token)
        /\ upload => is_connected(google_token)
        /\ source_mode' = mode
        /\ upload_to_drive' = upload
        /\ IF has_images /\ has_audio
           THEN /\ processing' = TRUE
                /\ video_ready' = FALSE
                /\ video_bytes' = 0
                /\ video_name' = 0
                /\ UNCHANGED drive_link
                /\ generation' = generation + 1
                /\ shown' = NoDisplay
                /\ web_pc' = "generating"
           ELSE /\ shown' = Display(video_ready, video_bytes, drive_link)
                /\ UNCHANGED <<web_pc, processing, video_ready, video_bytes, video_name,
                               drive_link, generation>>
    /\ UNCHANGED <<pipeline_vars, resolver_vars, gui_vars>>

\* does the body of the handler raise
Raises(save, audio, pipeline) ==
    \/ source_mode = "upload" /\ save = "OSError"
    \/ source_mode = "drive" /\ audio = "None"
    \/ pipeline = "raise"

\* the rest of the handler: files, pipeline, upload, then st.rerun() and the
\* script run it starts; an exception ends the script run where it is raised
GenerateFinish ==
    /\ web_pc = "generating"
    /\ web_pc' = "idle"
    /\ \E save \in {"ok", "OSError"}, audio \in {"bytes", "None"},
          pipeline \in {"ok", "fail", "raise"}, link \in {"link", "None"} :
        IF Raises(save, audio, pipeline)
        THEN UNCHANGED <<processing, video_ready, video_bytes, video_name, drive_link,
                         google_token, google_email, oauth_flow, query_code, oauth_ret,
                         button_disabled, shown>>
        ELSE /\ IF pipeline = "ok"
                THEN /\ video_bytes' = generation
                     /\ video_name' = generation
                     /\ video_ready' = TRUE
                     /\ drive_link' = IF upload_to_drive /\ is_connected(google_token)
                                         /\ link = "link"
                                      THEN generation ELSE drive_link
                ELSE UNCHANGED <<video_ready, video_bytes, video_name, drive_link>>
             /\ processing' = FALSE
             /\ RunSidebar(google_token, google_email)
             /\ button_disabled' = FALSE
             /\ shown' = Display(video_ready', video_bytes', drive_link')
    /\ UNCHANGED <<generation, source_mode, upload_to_drive>>
    /\ UNCHANGED <<pipeline_vars, resolver_vars, gui_vars>>

NextWeb ==
    \/ OauthRedirect
    \/ ScriptRun
    \/ Disconnect
    \/ GenerateStart
    \/ GenerateFinish

SpecWeb == Init /\ [][NextWeb]_vars

\* ======================================================== properties
\* The stage of the orchestrator's state machine the handler is in.
StageOf(p) ==
    CASE p = "Idle" -> "Idle"
      [] p \in {"check_ffmpeg", "check_ffmpeg_wait"} -> "CheckingTools"
      [] p = "get_image_files" -> "ResolvingInputs"
      [] p \in {"get_audio_duration", "get_audio_duration_wait"} -> "ProbingAudio"
      [] p \in {"check_nvenc", "check_nvenc_wait"} -> "SelectingBackend"
      [] p \in {"render", "render_wait"} -> "RenderingClips"
      [] p \in {"assemble", "assemble_wait"} -> "AssemblingTimeline"
      [] p \in {"final_encode", "final_encode_wait"} -> "Muxing"
      [] p = "Done" -> "Done"
      [] p = "Failed" -> "Failed"

StageOrder == <<"CheckingTools", "ResolvingInputs", "ProbingAudio", "SelectingBackend",
                "RenderingClips", "AssemblingTimeline", "Muxing", "Done">>

\* position of a stage in StageOrder, 0 for Idle and Failed
Rank(st) == IF \E k \in 1 .. Len(StageOrder) : StageOrder[k] = st
              THEN CHOOSE k \in 1 .. Len(StageOrder) : StageOrder[k] = st
              ELSE 0

LogIdx == 1 .. Len(log)
Of(kinds) == {k \in LogIdx : log[k].kind \in kinds}
Encodes == Of({"render", "xfade", "mux"})
Assemblies == Of({"concat", "xfade"})
PipelineCmds == Of({"render", "concat", "xfade", "mux"})
Probes == Of({"nvenc_probe"})
FailStatus == {"failed", "exception"}
Ended == ret # "none"

\* every clip 0 .. n-1 has a render that exited with 0 before log position k
ClipsRenderedBefore(n, k) ==
    \A c \in 0 .. n - 1 :
        \E j \in Of({"render"}) : j < k /\ log[j].idx = c /\ log[j].status = "ok"

\* the assembly step has succeeded: its command exited with 0, or the single
\* clip of a dissolve job was taken as the timeline
AssemblyDone ==
    /\ concat_output # "unset"
    /\ \A a \in Assemblies : log[a].status = "ok"
    /\ Assemblies = {} => (enable_dissolve /\ images = 1 /\ concat_output = "clip_0000.mp4")

\* the work of every stage before the current one has succeeded
EarlierStagesSucceeded ==
    LET r == Rank(StageOf(pc)) IN
    /\ r >= 2 => Of({"ffmpeg_version"}) = {1} /\ log[1].status = "ok"
    /\ r >= 3 => images >= 1 /\ images = image_folder
    /\ r >= 4 => audio_duration > 0 /\ \E k \in Of({"ffprobe"}) : log[k].status = "ok"
    /\ r >= 5 => \E k \in Probes : log[k].status # "running"
    /\ r >= 6 => ClipsRenderedBefore(images, Len(log) + 1)
    /\ r >= 7 => AssemblyDone
    /\ r >= 8 => \E k \in Of({"mux"}) : k = Len(log) /\ log[k].status = "ok"

\* a change of stage is a step to the next stage of StageOrder, a step to
\* Failed, or the start of a job
StageStep ==
    StageOf(pc') # StageOf(pc) =>
        \/ StageOf(pc') = "Failed"
        \/ Rank(StageOf(pc)) >= 1 /\ Rank(StageOf(pc')) = Rank(StageOf(pc)) + 1
        \/ StageOf(pc) \in {"Idle", "Done", "Failed"} /\ StageOf(pc') = "CheckingTools"

\* C1: the stages of a job are entered in the order CheckingTools, ResolvingInputs,
\* ProbingAudio, SelectingBackend, RenderingClips, AssemblingTimeline, Muxing, Done;
\* a stage is entered only when the work of every earlier stage has succeeded, and
\* Done is entered from Muxing only.
C1_StageOrder == [](EarlierStagesSucceeded) /\ [][StageStep]_vars

C1_Witness == pc = "Done" /\ images = 2 /\ Cardinality(Assemblies) = 1

ToolMissing ==
    \E k \in Of({"ffmpeg_version"}) : log[k].status \in {"FileNotFoundError", "failed"}
ImageSetEmpty ==
    /\ image_folder = 0
    /\ \E k \in Of({"ffmpeg_version"}) : log[k].status = "ok"
    /\ pc # "get_image_files"
AudioUnreadableProbed ==
    \/ \E k \in Of({"ffprobe"}) : log[k].status = "exception"
    \/ (\E k \in Of({"ffprobe"}) : log[k].status = "ok") /\ audio_duration <= 0

\* C2: when the encoding tool is missing, the image set is empty or the probed
\* audio duration is <= 0, the job has returned a failure, no clip render,
\* assembly or mux command was invoked and no temporary workspace exists.
C2_PreconditionFailure ==
    (ToolMissing \/ ImageSetEmpty \/ AudioUnreadableProbed) =>
        /\ ret = "fail"
        /\ error # NoError
        /\ PipelineCmds = {}
        /\ temp_dir = NoTempDir

C2_Witness == AudioUnreadableProbed /\ audio_duration < 0 /\ images = 2 /\ ret = "fail"

\* the error message a failed pipeline command must lead to
StepMessage(kind) ==
    CASE kind = "render" -> "Loi xu ly anh"
      [] kind = "concat" -> "Loi ghep video"
      [] kind = "xfade" -> "Loi tao chuyen canh"
      [] kind = "mux" -> "Loi xuat video"

\* C3: once a clip render, the assembly command or the mux has failed, it is the
\* last external command of the job, and the job has returned a failure whose
\* message carries the error of that command.
C3_StopAtFirstFailure ==
    \A k \in PipelineCmds :
        log[k].status \in FailStatus =>
            /\ k = Len(log)
            /\ ret = "fail"
            /\ error.msg = StepMessage(log[k].kind)
            /\ error.detail = (IF log[k].status = "exception" THEN "launch_error"
                               ELSE log[k].stderr)
            /\ error.detail # ""

C3_Witness ==
    /\ images = 2
    /\ log # <<>>
    /\ log[Len(log)].kind = "render" /\ log[Len(log)].idx = 0
    /\ log[Len(log)].status = "failed" /\ log[Len(log)].stderr = "stderr_b"
    /\ ret = "fail"

\* C4: after the job has ended, by a return or by an exception, the temporary
\* workspace and everything in it is gone.
C4_WorkspaceRemoved == pc \in {"Idle", "Done", "Failed"} => temp_dir = NoTempDir

C4_Witness ==
    /\ ret = "raise" /\ error.msg = "OSError"
    /\ Cardinality(Of({"render"})) = 2

MuxSucceededAfterAll ==
    /\ \E k \in Of({"mux"}) : k = Len(log) /\ log[k].status = "ok"
    /\ ClipsRenderedBefore(images, Len(log))
    /\ AssemblyDone

\* C5: the job reports success exactly when the mux succeeded after every clip
\* render and the assembly succeeded, and in every other case it returns a
\* failure with an error message.
C5_SuccessIffMux ==
    Ended =>
        /\ ret = "ok" <=> MuxSucceededAfterAll
        /\ ret # "ok" => ret = "fail" /\ error # NoError

\* C6: after a job that ended in failure no file exists at the output path; a
\* file exists there only after a successful job.
C6_NoPartialOutput == Ended => (outputFile # "absent" <=> ret = "ok")

\* C7: no failure leaves create_video_from_images as an exception.
C7_NoException == ret # "raise"

\* the codec of the backend selected for this job
Backend == IF use_gpu THEN "h264_nvenc" ELSE "libx264"

\* C8: the backend is selected by exactly one probe per job, finished before the
\* first clip render, and every clip render, the cross-fade re-encode and the
\* mux of the job use the codec of that backend.
C8_OneBackend ==
    Encodes # {} =>
        /\ Cardinality(Probes) = 1
        /\ \A p \in Probes, k \in Encodes : p < k /\ log[p].status # "running"
        /\ \A k \in Encodes : log[k].codec = Backend
        /\ \A j, k \in Encodes : log[j].codec = log[k].codec

C8_Witness ==
    /\ ret = "ok" /\ use_gpu /\ enable_dissolve /\ images = 2
    /\ Cardinality(Encodes) = 4

ProbeFailed == \E p \in Probes : log[p].status \in {"failed", "timeout", "exception"}

\* C9: when the hardware probe ended with a non-zero exit code, a timeout or an
\* exception, the selector reported the hardware path unavailable, the job went
\* on to render without failing, and every clip render, cross-fade re-encode and
\* mux of the job uses libx264.
C9_SoftwareFallback ==
    ProbeFailed =>
        /\ ~use_gpu
        /\ \A k \in Encodes : log[k].codec = "libx264"
        /\ log[Len(log)].kind = "nvenc_probe" =>
               pc = "render" /\ ret = "none" /\ temp_dir.exists

C9_Witness ==
    /\ \E p \in Probes : log[p].status = "timeout"
    /\ ret = "ok" /\ enable_dissolve /\ images = 2

\* C10: at most one external process of the job runs at any time: only the
\* last command launched can be running; clip i+1 is launched only after the
\* render of clip i has exited with 0, the assembly command only after all N
\* clips were rendered, the mux only after the assembly has finished.
C10_Sequential ==
    /\ Cardinality(running) <= 1
    /\ running = {k \in LogIdx : log[k].status = "running"}
    /\ \A k \in running : k = Len(log)
    /\ \A k \in Of({"render"}) : ClipsRenderedBefore(log[k].idx, k)
    /\ \A k \in Assemblies : ClipsRenderedBefore(images, k)
    /\ \A k \in Of({"mux"}) :
           /\ ClipsRenderedBefore(images, k)
           /\ \A a \in Assemblies : a < k /\ log[a].status = "ok"

C10_Witness ==
    /\ pc = "final_encode_wait" /\ images = 2
    /\ running = {Len(log)} /\ Len(log) = 7
ProbeRuns == Of({"ffprobe"})

\* get_audio_duration has returned without a duration it could read
ProbeUnreadable ==
    \E k \in ProbeRuns :
        \/ log[k].status = "exception"
        \/ log[k].status = "ok" /\ log[k].stdout \in {"not_json", "no_duration", "not_number"}

\* a step of the audio probe stage does not end the job with an exception
ProbeStepReturns ==
    (pc \in {"get_audio_duration", "get_audio_duration_wait"}) => (ret' # "raise")

\* C11: get_audio_duration never raises: when ffprobe cannot be launched, its
\* output is not JSON or format.duration is missing or not a number, it returns
\* 0.0; and whenever the probed duration is <= 0 the job has failed, with no
\* backend probe and no render, assembly or mux command.
C11_ProbeNeverRaises ==
    /\ [](ProbeUnreadable => audio_duration = 0)
    /\ []((\E k \in ProbeRuns : log[k].status # "running") /\ audio_duration <= 0 =>
              /\ ret = "fail" /\ error.msg = "Khong the doc file audio!"
              /\ Probes = {} /\ PipelineCmds = {})
    /\ [][ProbeStepReturns]_vars

C11_Witness ==
    /\ \E k \in ProbeRuns : log[k].status = "ok" /\ log[k].stdout = "not_number"
    /\ audio_duration = 0 /\ ret = "fail" /\ images = 2
\* C12: when an external encoder command has failed, the error message returned
\* to the caller holds at most 500 characters of the tool's stderr output.
C12_BoundedDiagnostic ==
    \A k \in PipelineCmds :
        log[k].status = "failed" /\ ret = "fail" =>
            /\ error.detail = log[k].stderr
            /\ StderrLength(error.detail) <= ErrorExcerptLimit
\* the progress messages that belong to a stage
StageMsgs(st) ==
    CASE st = "CheckingTools" -> {"Dang kiem tra FFmpeg..."}
      [] st = "ResolvingInputs" -> {"Tim thay anh"}
      [] st = "ProbingAudio" -> {"Thoi luong moi anh"}
      [] st = "SelectingBackend" -> {"Su dung GPU/CPU de encode"}
      [] st = "RenderingClips" -> {"Xu ly anh"}
      [] st = "AssemblingTimeline" -> {"Dang ghep video...",
                                       "Dang ap dung chuyen canh dissolve..."}
      [] st = "Muxing" -> {"Dang them audio va xuat file cuoi cung..."}
      [] OTHER -> {}

\* event m is a progress message for the work w (of the same clip, for a render)
Announces(m, w) ==
    /\ m.ev = "msg" /\ w.ev = "work"
    /\ m.text \in StageMsgs(w.text)
    /\ w.text = "RenderingClips" => m.arg = w.arg

EventIdx == 1 .. Len(events)
WorkEvents(stages) == {k \in EventIdx : events[k].ev = "work" /\ events[k].text \in stages}
AnnouncedStages == {"CheckingTools", "RenderingClips", "AssemblingTimeline", "Muxing"}
ReportedStages == {"ResolvingInputs", "ProbingAudio", "SelectingBackend"}

\* C13 (as stated): with a progress callback, the work of every stage is
\* preceded by a progress message for that stage.
C13_MessageBeforeWork ==
    progress_callback =>
        \A k \in WorkEvents(AnnouncedStages \cup ReportedStages) :
            \E j \in 1 .. k - 1 : Announces(events[j], events[k])

\* C13 (amended): with a progress callback, the tool check, each clip render,
\* the assembly and the mux are preceded by their progress message; input
\* resolution, the audio probe and backend selection are not: their message is
\* delivered once the stage's work has succeeded, and never before it.
C13_MessageOrder ==
    progress_callback =>
        /\ \A k \in WorkEvents(AnnouncedStages) :
               \E j \in 1 .. k - 1 : Announces(events[j], events[k])
        /\ \A k \in WorkEvents(ReportedStages) :
               \A j \in EventIdx : Announces(events[j], events[k]) => j > k
        /\ \A st \in ReportedStages :
               Rank(StageOf(pc)) > Rank(st) =>
                   \E k \in WorkEvents({st}), j \in EventIdx : Announces(events[j], events[k])

C13_Witness ==
    /\ progress_callback /\ pc = "Done" /\ images = 2 /\ enable_dissolve
    /\ \E k \in EventIdx : events[k] = Msg("Xu ly anh", 1)
\* a command of one of the kinds has ended otherwise than by exit code 0
CommandFailed(kinds) == \E k \in Of(kinds) : log[k].status \notin {"running", "ok"}

\* the own work of stage st has failed in this job
StageWorkFailed(st) ==
    CASE st = "CheckingTools" -> CommandFailed({"ffmpeg_version"})
      [] st = "ResolvingInputs" ->
             WorkEvents({"ResolvingInputs"}) # {} /\ image_folder \in {-1, 0}
      [] st = "ProbingAudio" ->
             (\E k \in ProbeRuns : log[k].status # "running") /\ audio_duration <= 0
      [] st = "SelectingBackend" -> CommandFailed({"nvenc_probe"})
      [] st = "RenderingClips" -> CommandFailed({"render"})
      [] st = "AssemblingTimeline" ->
             CommandFailed({"concat", "xfade"}) \/ error.msg = "OSError"
      [] st = "Muxing" -> CommandFailed({"mux"})

\* C14: each of CheckingTools, ResolvingInputs, ProbingAudio, SelectingBackend,
\* RenderingClips, AssemblingTimeline and Muxing has a transition to Failed: a
\* failure of the stage's own work ends the job in Failed with a captured
\* error message.
C14_FailureTransition ==
    \A k \in 1 .. 7 :
        StageWorkFailed(StageOrder[k]) =>
            pc = "Failed" /\ ret = "fail" /\ error.msg # "None"
\* the render commands of clip c in this job
RendersOf(c) == {k \in Of({"render"}) : log[k].idx = c}

\* C15: no step is retried: within one job each image is rendered at most once,
\* the assembly command is invoked at most once and the mux command is invoked
\* at most once, whether the step succeeds or fails.
C15_NoRetry ==
    /\ \A c \in 0 .. MaxImages : Cardinality(RendersOf(c)) <= 1
    /\ Cardinality(Assemblies) <= 1
    /\ Cardinality(Of({"mux"})) <= 1
    /\ \A k \in PipelineCmds : log[k].status \in {"failed", "exception"} => k = Len(log)

C15_Witness ==
    /\ ret = "fail" /\ images = 3
    /\ \E k \in RendersOf(1) : log[k].status = "failed"
    /\ \E k \in RendersOf(0) : log[k].status = "ok"
\* the job has passed its preconditions and selected its backend
BackendSelected == Rank(StageOf(pc)) >= 5 \/ PipelineCmds # {}

\* C16: every job that passes its preconditions runs its own hardware probe,
\* and the backend it uses is the result of that probe, whatever the probes of
\* earlier jobs gave: nothing is cached between jobs.
C16_ProbePerJob ==
    BackendSelected =>
        /\ Cardinality(Probes) = 1
        /\ \A p \in Probes : use_gpu <=> (log[p].status = "ok")
        /\ probe_history # <<>> /\ probe_history[Len(probe_history)] = use_gpu
        /\ Len(probe_history) <= job

C16_Witness ==
    /\ job = 2 /\ pc = "Done" /\ ~use_gpu
    /\ Len(probe_history) = 2 /\ probe_history[1] /\ ~probe_history[2]
    /\ \E p \in Probes : log[p].status = "timeout"
\* the duration requested for the clips of the job equals a / b
SameRatio(d, a, b) == d.num * b = a * d.den

\* C17: for N >= 1 images and a probed audio duration D > 0, every clip is
\* rendered with the same duration durationPerImage = D / N > 0, and
\* N * durationPerImage = D: without dissolve the clips of the concatenated
\* timeline add up to the duration of the audio.
C17_TimingPlan ==
    /\ \A k \in Of({"render"}) :
           /\ images >= 1 /\ audio_duration > 0
           /\ log[k].duration = duration_per_image
           /\ SameRatio(log[k].duration, audio_duration, images)
           /\ log[k].duration.num > 0 /\ log[k].duration.den > 0
           /\ images * log[k].duration.num = audio_duration * log[k].duration.den
    /\ \A a \in Of({"concat"}) :
           /\ Len(clip_files) = images
           /\ \A c \in 1 .. Len(clip_files) :
                  \E k \in RendersOf(clip_files[c]) :
                      k < a /\ log[k].duration = duration_per_image
           /\ Len(clip_files) * duration_per_image.num =
                  audio_duration * duration_per_image.den

C17_Witness ==
    /\ pc = "Done" /\ ~enable_dissolve /\ images = 3 /\ audio_duration = 9000
    /\ \E a \in Of({"concat"}) : log[a].status = "ok"
    /\ \A c \in 0 .. 2 : \E k \in RendersOf(c) : SameRatio(log[k].duration, 3000, 1)
\* round(d * fps) for a duration d in ms: the nearest integer, halves up
RoundedFrames(d, fps) == (2 * d.num * fps + d.den * 1000) \div (2 * d.den * 1000)

\* C18: the frame count handed to the filter graph builder is
\* round(durationPerImage * fps) with fps = 30, for every durationPerImage > 0.
C18_RoundedFrameCount ==
    \A k \in Of({"render"}) :
        /\ log[k].frames = RoundedFrames(log[k].duration, Fps)
        /\ \A t \in 1 .. Len(log[k].vf) :
               log[k].vf[t].name = "zoompan" =>
                   log[k].vf[t].d = RoundedFrames(log[k].duration, Fps)
\* C19: with dissolve enabled and exactly one image, no cross-fade command is
\* invoked and the timeline given to the final mux is the single rendered clip
\* itself, unmodified.
C19_SingleClipDissolve ==
    (enable_dissolve /\ images = 1) =>
        /\ Assemblies = {}
        /\ \A m \in Of({"mux"}) :
               /\ log[m].input = "clip_0000.mp4"
               /\ concat_output = "clip_0000.mp4"
               /\ \E k \in RendersOf(0) : k < m /\ log[k].status = "ok"
               /\ \A k \in PipelineCmds : k < m => k \in RendersOf(0)

C19_Witness ==
    /\ enable_dissolve /\ images = 1 /\ pc = "Done"
    /\ \E m \in Of({"mux"}) : log[m].status = "ok" /\ log[m].input = "clip_0000.mp4"
\* the filter graph g has a term of the given name
HasTerm(g, name) == \E t \in 1 .. Len(g) : g[t].name = name

\* the filter graph g has a zoom expression that varies with the frame index
\* (on) over the frame count
HasTimeVaryingZoom(g, frames) ==
    \E t \in 1 .. Len(g) :
        g[t].name = "zoompan" /\ g[t].z = "1+0.1*on/d" /\ g[t].d = frames

\* the terms of g that split, overlay or zoom
EffectTerms(g) == {g[t].name : t \in 1 .. Len(g)} \cap {"split", "overlay", "boxblur", "zoompan"}

\* C20: for every combination of (zoom, blurBackground) the filter graph of
\* _build_image_filter has a split and an overlay term iff blurBackground, and
\* a time-varying zoom expression (over the frame index and the frame count)
\* iff zoom; with both false it has neither.
C20_FilterGraphSelection ==
    \A k \in Of({"render"}) :
        LET g == log[k].vf IN
        /\ (HasTerm(g, "split") /\ HasTerm(g, "overlay")) <=> enable_blur_bg
        /\ (HasTerm(g, "split") \/ HasTerm(g, "overlay")) <=> enable_blur_bg
        /\ HasTimeVaryingZoom(g, log[k].frames) <=> enable_zoom
        /\ HasTerm(g, "zoompan") <=> enable_zoom
        /\ (~enable_zoom /\ ~enable_blur_bg) => EffectTerms(g) = {}

C20_Witness ==
    /\ enable_zoom /\ enable_blur_bg /\ images = 2 /\ audio_duration = 1570
    /\ \E k \in RendersOf(1) :
           /\ log[k].status = "ok" /\ log[k].frames = 23
           /\ EffectTerms(log[k].vf) = {"split", "overlay", "boxblur", "zoompan"}
           /\ HasTimeVaryingZoom(log[k].vf, 23)
\* the image files among the names a folder can hold, and their place in the
\* natural order of the lower-cased name (img2.png and IMG2.PNG share a place)
NaturalRank(name) ==
    CASE name = Img1Png -> 1
      [] name = Img02Jpeg -> 2
      [] name = Img2Png -> 3
      [] name = UpperImg2Png -> 3
      [] name = Img10Png -> 4
      [] OTHER -> 0

ExpectedImages == {f \in folder_entries : f.is_file /\ NaturalRank(f.name) > 0}

\* C21: get_image_files returns exactly the direct-child regular files of the
\* folder whose extension is in the allow-list, compared case-insensitively, each
\* once, in the natural order of the lower-cased file name: img1.png, img2.png,
\* img10.png.
C21_NaturalOrder ==
    resolved.returned =>
        LET out == resolved.images IN
        /\ {out[k] : k \in 1 .. Len(out)} = ExpectedImages
        /\ Len(out) = Cardinality(ExpectedImages)
        /\ \A j, k \in 1 .. Len(out) :
               j < k => NaturalRank(out[j].name) <= NaturalRank(out[k].name)

C21_Witness ==
    /\ resolved.returned /\ folder_entries = DirEntries
    /\ Len(resolved.images) = 5
    /\ resolved.images[1].name = Img1Png
    /\ resolved.images[2].name = Img02Jpeg
    /\ resolved.images[3].name = UpperImg2Png
    /\ resolved.images[4].name = Img2Png
    /\ resolved.images[5].name = Img10Png
WaitPcs == {"check_ffmpeg_wait", "get_audio_duration_wait", "check_nvenc_wait",
            "render_wait", "assemble_wait", "final_encode_wait"}
JobEnded == pc \in {"Done", "Failed"}

\* the handler leaves the wait for a process only when that process has ended
\* (or, for the hardware probe, the timeout has expired), and a started job is
\* left only by its own return or exception
NoAbort ==
    /\ (pc \in WaitPcs /\ pc' # pc) => (running # {} /\ running' = {})
    /\ (pc \notin {"Idle", "Done", "Failed"} /\ pc' # pc) =>
           /\ job' = job /\ pc' # "Idle"
           /\ JobEnded' <=> ret' # "none"

\* no command but the hardware probe is given up after a timeout
OnlyProbeTimesOut == \A k \in LogIdx : log[k].status = "timeout" => log[k].kind = "nvenc_probe"

\* C22: if every external process the job invokes eventually exits, the job
\* eventually ends in Done or Failed; a started job has no abort transition and
\* only the hardware probe is bounded by a timeout, so the wait for a clip
\* render, assembly or mux process ends only when that process exits.
C22_Termination ==
    /\ (~JobEnded /\ pc # "Idle") ~> JobEnded
    /\ []OnlyProbeTimesOut
    /\ [][NoAbort]_vars

C22_Witness ==
    /\ pc = "Done" /\ images = 2 /\ enable_dissolve
    /\ \E p \in Probes : log[p].status = "timeout"
    /\ \E k \in Of({"xfade"}) : log[k].status = "ok"
Xfades == Of({"xfade"})

\* the clips 0 .. n-1 in order
InOrder(n) == [k \in 1 .. n |-> k - 1]

\* the cross-fades of chain c that read label l
Consumers(c, l) == {p \in 1 .. Len(c) : c[p].in1 = l \/ c[p].in2 = l}

\* C23: with dissolve enabled and N >= 2 clips, one filter-graph invocation takes
\* all N clips as inputs in source order and has exactly N-1 cross-fades:
\* cross-fade 0 reads raw inputs 0 and 1, cross-fade i >= 1 reads the label
\* written by cross-fade i-1 and raw input i+1; every cross-fade but the last
\* writes a distinct label that is read exactly once, the last writes none.
C23_XfadeChain ==
    /\ Cardinality(Xfades) <= 1
    /\ \A x \in Xfades :
        LET n == Len(log[x].inputs)
            c == log[x].chain
        IN  /\ enable_dissolve /\ n >= 2 /\ n = images
            /\ log[x].inputs = InOrder(n)
            /\ Len(c) = n - 1
            /\ c[1].in1 = [kind |-> "input", n |-> 0]
            /\ \A p \in 1 .. n - 1 : c[p].in2 = [kind |-> "input", n |-> p]
            /\ \A p \in 2 .. n - 1 : c[p].in1 = c[p - 1].out
            /\ \A p \in 1 .. n - 2 :
                   /\ c[p].out.kind = "v"
                   /\ Consumers(c, c[p].out) = {p + 1}
                   /\ \A q \in 1 .. n - 2 : q # p => c[q].out # c[p].out
            /\ c[n - 1].out.kind = "none"

C23_Witness ==
    \E x \in Xfades :
        /\ log[x].status = "ok" /\ images = 3 /\ Len(log[x].chain) = 2
        /\ log[x].chain[1].out = log[x].chain[2].in1
        /\ log[x].chain[1].out.kind = "v"

\* comparison of durations given as fractions with positive denominators
RatLess(a, b) == a.num * b.den < b.num * a.den
RatEq(a, b) == a.num * b.den = b.num * a.den
Millis(ms) == [num |-> ms, den |-> 1]

\* perImageDuration - 1.0, by its own arithmetic
Shortened(d) == [num |-> d.num - 1000 * d.den, den |-> d.den]

\* C24: for N >= 2 clips and perImageDuration > dissolveDuration = 1.0 the
\* offset of cross-fade i (i in 0..N-2) is (i+1) * (perImageDuration - 1.0): the
\* offsets are positive, strictly increasing and spaced by perImageDuration - 1.0.
C24_Offsets ==
    \A x \in Xfades :
        RatLess(Millis(1000), duration_per_image) =>
            LET c == log[x].chain
                step == Shortened(duration_per_image)
            IN  /\ \A p \in 1 .. Len(c) :
                       /\ c[p].offset.den > 0
                       /\ RatEq(c[p].offset, [num |-> p * step.num, den |-> step.den])
                       /\ RatLess(Millis(0), c[p].offset)
                /\ \A p \in 1 .. Len(c) - 1 :
                       /\ RatLess(c[p].offset, c[p + 1].offset)
                       /\ RatEq([num |-> c[p + 1].offset.num * c[p].offset.den
                                            - c[p].offset.num * c[p + 1].offset.den,
                                 den |-> c[p + 1].offset.den * c[p].offset.den], step)

C24_Witness ==
    \E x \in Xfades :
        /\ images = 3 /\ audio_duration = 9000 /\ log[x].status = "ok"
        /\ RatEq(log[x].chain[1].offset, Millis(2000))
        /\ RatEq(log[x].chain[2].offset, Millis(4000))

\* the job has left the assembly step behind, or waits for its command
PastAssembly == pc \in {"assemble_wait", "final_encode", "final_encode_wait", "Done"}

\* C25: the dissolve strategy does not guard perImageDuration <= dissolveDuration:
\* for N >= 2 and perImageDuration <= 1.0 the job is not rejected and the
\* dissolve duration is not clamped; the cross-fade command is invoked, with
\* every offset <= 0 and no offset greater than the one before.
C25_UnguardedDissolve ==
    (enable_dissolve /\ images >= 2 /\ ~RatLess(Millis(1000), duration_per_image)) =>
        /\ PastAssembly => Xfades # {}
        /\ \A x \in Xfades :
               LET c == log[x].chain IN
               /\ \A p \in 1 .. Len(c) :
                      /\ c[p].duration = 1000
                      /\ ~RatLess(Millis(0), c[p].offset)
               /\ \A p \in 1 .. Len(c) - 1 : ~RatLess(c[p].offset, c[p + 1].offset)

C25_Witness ==
    \E x \in Xfades :
        /\ images = 3 /\ audio_duration = 1570 /\ log[x].status = "ok" /\ pc = "Done"
        /\ RatLess(log[x].chain[2].offset, log[x].chain[1].offset)
        /\ RatLess(log[x].chain[1].offset, Millis(0))
\* clip c was rendered once, from image c, before log position a, and exited with 0
RenderedOnceBefore(c, a) ==
    /\ Cardinality(RendersOf(c)) = 1
    /\ \A k \in RendersOf(c) : k < a /\ log[k].image = c /\ log[k].status = "ok"

\* C26: on every job that reaches assembly exactly N clips have been rendered
\* for the N resolved images, clip i from image i, and the timeline joins them
\* in that order, none omitted or duplicated: the concat manifest lists clip
\* 0..N-1 once each in order, the cross-fade invocation takes them as inputs
\* 0..N-1.
C26_ClipOrder ==
    /\ Rank(StageOf(pc)) >= 6 =>
           /\ clip_files = InOrder(images)
           /\ Cardinality(Of({"render"})) = images
           /\ \A c \in 0 .. images - 1 : RenderedOnceBefore(c, Len(log) + 1)
    /\ \A a \in Assemblies :
           /\ log[a].inputs = InOrder(images)
           /\ \A c \in 0 .. images - 1 : RenderedOnceBefore(c, a)
           /\ \A k \in Of({"render"}) : log[k].idx \in 0 .. images - 1
           /\ log[a].kind = "concat" /\ temp_dir.exists => temp_dir.concat_txt = InOrder(images)

C26_Witness ==
    /\ ~enable_dissolve /\ images = 3 /\ pc = "final_encode_wait"
    /\ \E a \in Of({"concat"}) : log[a].status = "ok" /\ log[a].inputs = <<0, 1, 2>>
    /\ temp_dir.concat_txt = <<0, 1, 2>>

\* a log entry as the command that was launched
AsLaunched(c) == [c EXCEPT !.status = "running", !.stderr = ""]

C28_DissolveKeepsLength ==
    \A x \in Xfades :
        \A k \in Of({"render"}) :
            LET d == log[k].duration IN
            images * d.num - (images - 1) * DissolveDuration * d.den >= audio_duration * d.den

\* C29: for every job that reaches clip rendering the frame count passed to
\* _build_image_filter is at least 1, so that the divisor of the zoom ramp and
\* the zoompan frame count d are never 0.
C29_PositiveFrameCount ==
    \A k \in Of({"render"}) :
        /\ log[k].frames >= 1
        /\ \A t \in 1 .. Len(log[k].vf) : log[k].vf[t].name = "zoompan" => log[k].vf[t].d >= 1

\* the workers whose generation is running
Generating == {w \in 1 .. MaxThreads : threads[w] = "generating"}

\* the workers whose _generation_complete is queued and has not run yet
Pending == {after_queue[k].worker : k \in 1 .. Len(after_queue)}

\* a call of _start_generation while is_processing does nothing; a thread is
\* started only with is_processing set, and is_processing is reset only by
\* _generation_complete
GuardedStart ==
    /\ (is_processing /\ calls' # calls) =>
           UNCHANGED <<is_processing, generate_btn, threads, after_queue>>
    /\ (threads' # threads /\ Generating' # Generating /\ Generating' # {}) =>
           ~is_processing /\ is_processing' /\ Generating = {} /\ Pending = {}
    /\ (is_processing /\ ~is_processing') =>
           Len(after_queue') = Len(after_queue) - 1

\* C30: in the desktop GUI at most one video-generation worker is active at any
\* time: _start_generation does nothing while is_processing is True, and
\* is_processing is True from before the worker thread is started until
\* _generation_complete runs for that worker.
C30_SingleWorker ==
    /\ [](Cardinality(Generating \cup Pending) <= 1)
    /\ [](Generating \cup Pending # {} => is_processing /\ generate_btn = "disabled")
    /\ [][GuardedStart]_vars

C30_Witness ==
    /\ is_processing /\ calls = 4
    /\ threads[1] = "exited" /\ threads[2] = "generating"
\* C31: in the desktop GUI, after _start_generation has started a worker,
\* _generation_complete eventually runs on the UI thread, resets is_processing
\* and re-enables the generate button, both when create_video_from_images
\* returns an outcome and when it raises in the worker thread.
C31_CompletionRuns == is_processing ~> (~is_processing /\ generate_btn = "normal")
\* C32: in the web front end, session_state.processing is False again after
\* every handling of the generate button that set it to True, whatever the
\* outcome, so that the button is never left disabled.
C32_ProcessingReset == web_pc = "idle" => ~processing /\ ~button_disabled

\* C33: whenever a result is displayed together with a Drive link, that link is
\* the upload of the displayed video.
C33_LinkOfShownVideo == shown.link # 0 => shown.link = shown.video

\* C34: handle_oauth_callback returns True if and only if the session ends up
\* connected: when it returns False no google_token is stored (the sidebar only
\* calls it while the session is not connected).
C34_ConnectedIffTrue ==
    /\ oauth_ret = "False" => ~is_connected(google_token)
    /\ oauth_ret = "True" => is_connected(google_token)
====
